---- MODULE Spec2Model ----
(***************************************************************************)
(* Model of backup.py: one run of the WordPress backup job.                *)
(*                                                                         *)
(* main() constructs a WordPressBackup (which loads and validates the      *)
(* environment) and calls create_backup(), which runs, inside one          *)
(* try/except Exception/finally, the steps _setup_ssh_connection,          *)
(* _create_remote_backup, _download_backup, _cleanup_remote_backup and, in *)
(* the finally clause, _close_connections.                                 *)
(*                                                                         *)
(* The external collaborators (paramiko, the remote host, the local file   *)
(* system) answer each call either by returning or by raising; the model   *)
(* draws that answer from a small set in each action.  sys.exit(1) raises  *)
(* SystemExit, which is a BaseException and not an Exception.  close() of  *)
(* the two paramiko handles is taken to return normally.                   *)
(***************************************************************************)
EXTENDS Integers, Sequences, FiniteSets, TLC

VARIABLES
    environ,         \* os.environ: variable name -> value, None when unset
    today,           \* the calendar day datetime.now() would report
    pc,              \* position of the process in main()/create_backup()
    backup_date,     \* self.backup_date, <<>> before it is assigned
    backup_filename, \* self.backup_filename, <<>> before it is assigned
    remote_backup_path, \* create_backup's local, <<>> before it is assigned
    zip_command_path,   \* the remote file the archive command sent names
    get_remote_path,    \* the remote path given to sftp get
    get_local_path,     \* the local path given to sftp get
    removed_path,       \* the remote path given to sftp remove
    ssh_client,      \* self.ssh_client: None or the SSHClient object
    sftp_client,     \* self.sftp_client: None or the SFTPClient object
    sessionOpen,     \* the SSHClient holds a connected transport
    sftpOpen,        \* the SFTPClient holds an open channel
    keyFile,         \* the temporary .pem file: "absent" or "present" on disk
    log,             \* the records written through logger, in order
    ops,             \* the external calls made so far, in order
    exc,             \* the exception propagating out of create_backup's try
    exitStatus,      \* <<status>> once the process has exited, <<>> before
    setupOutcome,    \* how the collaborators answered _setup_ssh_connection
    archiveOutcome,  \* how exec_command / recv_exit_status / read answered
    archiveExit,     \* the exit status recv_exit_status returned
    archiveStderr,   \* the bytes stderr.read() returned
    downloadOutcome, \* how sftp get / getsize answered
    removeOutcome    \* how sftp remove answered

vars == <<environ, today, pc, backup_date, backup_filename,
          remote_backup_path, zip_command_path, get_remote_path,
          get_local_path, removed_path, ssh_client, sftp_client,
          sessionOpen, sftpOpen, keyFile, log, ops, exc, exitStatus,
          setupOutcome, archiveOutcome, archiveExit, archiveStderr,
          downloadOutcome, removeOutcome>>

----------------------------------------------------------------------------
(* Bounds and value sets *)

MaxDay == 2

None == "<None>"

\* exitStatus while the process is still running.
NotExited == <<>>

NotRun == "n/a"

EnvNames ==
    {"SSH_USER", "SSH_HOST", "SSH_PATH", "SSH_MYSQL_PATH", "SSH_PUBLIC_KEY"}

\* A key value whose characters the text-mode temporary file cannot encode
\* (os.getenv decodes undecodable bytes of the environment to lone surrogates).
UnencodableKey == "PEM\\udcff"

\* Bytes on the remote command's stderr that are not valid UTF-8.
UndecodableStderr == "zip warning \\xe9"

EnvValues(n) ==
    CASE n = "SSH_USER"       -> {None, "", "test"}
      [] n = "SSH_HOST"       -> {None, "", "test.example.com"}
      [] n = "SSH_PATH"       -> {None, "", "/var/www/html"}
      [] n = "SSH_MYSQL_PATH" -> {None, "/var/lib/mysql"}
      [] n = "SSH_PUBLIC_KEY" -> {None, "", "PEM", UnencodableKey}

AllEnvValues == UNION {EnvValues(n) : n \in EnvNames}

ExitStatuses == {0, 1, 2}

StderrValues == {"", "zip warning: permission denied", UndecodableStderr}

----------------------------------------------------------------------------
(* Pure helpers *)

\* Python truthiness of an os.getenv result: None and "" are falsy.
Truthy(v) == v # None /\ v # ""

\* str.encode of the key material when it is written to the text-mode file.
Encodable(s) == s # UnencodableKey

\* bytes.decode() of the captured error stream (UTF-8, strict).
Decodable(b) == b # UndecodableStderr

ssh_user == environ["SSH_USER"]

ssh_host == environ["SSH_HOST"]

ssh_path == environ["SSH_PATH"]

ssh_mysql_path == environ["SSH_MYSQL_PATH"]

ssh_public_key == environ["SSH_PUBLIC_KEY"]

Info(m) == <<"INFO", m, <<>>>>

Warning(m) == <<"WARNING", m, <<>>>>

Error(m) == <<"ERROR", m, <<>>>>

Digit(n) ==
    CASE n = 0 -> "0" [] n = 1 -> "1" [] n = 2 -> "2" [] n = 3 -> "3"
      [] n = 4 -> "4" [] n = 5 -> "5" [] n = 6 -> "6" [] n = 7 -> "7"
      [] n = 8 -> "8" [] n = 9 -> "9"

\* datetime.now().strftime('%Y-%m-%d') on day `day` of January 2024: the
\* pieces of the string, the day zero-padded to two digits.
strftime(day) ==
    <<"2024", "-", "01", "-", Digit(day \div 10), Digit(day % 10)>>

\* f"{self.backup_date}.wp-content.zip"
backup_filename_of(date) == date \o <<".wp-content.zip">>

\* f"{self.ssh_path}/{self.backup_filename}"
remote_backup_path_of(path, filename) == <<path, "/">> \o filename

\* The file "cd {ssh_path} && zip -r {backup_filename} ..." writes.
zip_command_target(path, filename) == <<path, "/">> \o filename

local_backup_path_recomputed(filename) ==
    <<"~", "/">> \o backup_filename_of(strftime(today))

\* os.path.expanduser(f"~/{self.backup_filename}"), "~" the home directory.
local_backup_path_of(filename) == <<"~", "/">> \o filename

required_vars_with_mysql ==
    <<"SSH_USER", "SSH_HOST", "SSH_PATH", "SSH_MYSQL_PATH">>

required_vars == <<"SSH_USER", "SSH_HOST", "SSH_PATH">>

missing_vars_first_only(e) ==
    LET all == SelectSeq(required_vars, LAMBDA v : ~Truthy(e[v]))
    IN  IF all = <<>> THEN <<>> ELSE <<Head(all)>>

\* [var for var in required_vars if not getattr(self, var.lower())]
missing_vars(e) == SelectSeq(required_vars, LAMBDA v : ~Truthy(e[v]))

except_BaseException(k) == k # "none"

\* `except Exception` of create_backup: SystemExit derives from BaseException
\* only, so the clause does not catch it.
CaughtByExceptException(k) == k = "Exception"

\* What create_backup's except clause adds when exception k leaves the try
\* body: the log records it writes and the exception that then propagates.
TopLevelHandler(k) ==
    IF CaughtByExceptException(k)
    THEN [logs |-> <<Error("Backup process failed")>>, exc |-> "SystemExit"]
    ELSE [logs |-> <<>>, exc |-> k]

finally_skipped(k, next) == IF k = "none" THEN next ELSE "exited"

\* Where create_backup is after a step: at the next step or, when an
\* exception is propagating, in its finally clause.
after_step(k, next) == IF k = "none" THEN next ELSE "finally"

----------------------------------------------------------------------------
(* _setup_ssh_connection *)

\* The answers the collaborators can give during the connection step.
SetupOutcomes(key) ==
    IF Truthy(key)
    THEN IF Encodable(key)
         THEN {"parse_raises", "connect_raises", "open_sftp_raises", "ok"}
         ELSE {"write_raises"}
    ELSE {"connect_raises", "open_sftp_raises", "ok"}

\* The calls made by the key-authentication branch.
KeyAuthOps(o) ==
    <<"NamedTemporaryFile", "write">>
    \o (IF o = "write_raises"
        THEN <<>>
        ELSE <<"from_private_key_file">>
             \o (IF o = "parse_raises" THEN <<>> ELSE <<"connect">>)
             \o <<"unlink">>)

SetupOps_retry_connect(key, o) ==
    <<"SSHClient">>
    \o (IF Truthy(key) THEN KeyAuthOps(o) ELSE <<"connect">>)
    \o (IF o = "connect_raises" THEN <<"connect">> ELSE <<>>)
    \o (IF o \in {"ok", "open_sftp_raises"} THEN <<"open_sftp">> ELSE <<>>)

\* The calls made by the whole step, in order.
SetupOps(key, o) ==
    <<"SSHClient">>
    \o (IF Truthy(key) THEN KeyAuthOps(o) ELSE <<"connect">>)
    \o (IF o \in {"ok", "open_sftp_raises"} THEN <<"open_sftp">> ELSE <<>>)

Contains(s, x) == \E i \in 1..Len(s) : s[i] = x

\* The temporary file is on disk when it was created and not unlinked.
KeyFileOnDisk(called) ==
    IF Contains(called, "NamedTemporaryFile") /\ ~Contains(called, "unlink")
    THEN "present"
    ELSE "absent"

setup_continues_after_failure(o) == "none"

\* The exception _setup_ssh_connection raises: sys.exit(1) in its handler.
setup_ssh_connection_exc(o) == IF o = "ok" THEN "none" ELSE "SystemExit"

setup_ssh_connection ==
    /\ pc = "setup"
    /\ \E o \in SetupOutcomes(ssh_public_key) :
        LET k == setup_ssh_connection_exc(o)
            h == TopLevelHandler(k)
            called == SetupOps(ssh_public_key, o)
        IN  /\ setupOutcome' = o
            /\ ops' = ops \o called
            /\ ssh_client' = "SSHClient"
            /\ sessionOpen' = (o \in {"ok", "open_sftp_raises"})
            /\ sftp_client' = IF o = "ok" THEN "SFTPClient" ELSE None
            /\ sftpOpen' = (o = "ok")
            /\ keyFile' = KeyFileOnDisk(called)
            /\ log' = log
                  \o <<Info("Starting WordPress backup process...")>>
                  \o (IF o = "ok"
                      THEN <<Info("SSH connection established")>>
                      ELSE <<Error("Failed to establish SSH connection")>>)
                  \o h.logs
            /\ exc' = h.exc
            /\ pc' = after_step(h.exc, "archive")
    /\ UNCHANGED <<backup_filename, remote_backup_path, zip_command_path,
                   get_remote_path, get_local_path, removed_path,
                   environ, today, backup_date, exitStatus, archiveOutcome,
                   archiveExit, archiveStderr, downloadOutcome, removeOutcome>>

----------------------------------------------------------------------------
(* __init__ and _validate_env_vars *)

\* main(): WordPressBackup() loads the environment, validates it and, when
\* nothing is missing, captures the date.  sys.exit(1) raised in __init__
\* leaves main() directly: create_backup and its finally are never entered.
Construct ==
    /\ pc = "main"
    /\ LET mv == missing_vars(environ)
       IN  IF mv # <<>>
           THEN /\ log' = Append(log,
                      <<"ERROR", "Missing required environment variables", mv>>)
                /\ exc' = "SystemExit"
                /\ exitStatus' = <<1>>
                /\ pc' = "exited"
                /\ UNCHANGED <<backup_date, backup_filename>>
           ELSE /\ log' = Append(log,
                      Info("Environment variables validated successfully"))
                /\ backup_date' = strftime(today)
                /\ backup_filename' = backup_filename_of(backup_date')
                /\ pc' = "setup"
                /\ UNCHANGED <<exc, exitStatus>>
    /\ UNCHANGED <<remote_backup_path, zip_command_path, get_remote_path,
                   get_local_path, removed_path,
                   environ, today, ssh_client, sftp_client, sessionOpen,
                   sftpOpen, keyFile, ops, setupOutcome, archiveOutcome,
                   archiveExit, archiveStderr, downloadOutcome, removeOutcome>>

----------------------------------------------------------------------------
(* _create_remote_backup *)

\* What the step logs after "Creating backup..." and what it raises, given
\* whether the command mechanism raised, the exit status and the stderr bytes.
create_remote_backup_result(raised, status, stderr) ==
    IF raised
    THEN [logs |-> <<Error("Failed to create remote backup")>>,
          exc |-> "SystemExit"]
    ELSE IF status = 0
    THEN [logs |-> <<Info("Backup created successfully on remote server")>>,
          exc |-> "none"]
    ELSE IF Decodable(stderr)
    THEN [logs |-> <<Warning("Backup completed with warnings")>>,
          exc |-> "none"]
    ELSE [logs |-> <<Error("Failed to create remote backup")>>,
          exc |-> "SystemExit"]

create_remote_backup ==
    /\ pc = "archive"
    /\ \E raised \in BOOLEAN, status \in ExitStatuses, stderr \in StderrValues :
        \* one representative of the inputs the code does not look at
        /\ raised => (status = 0 /\ stderr = "")
        /\ status = 0 => stderr = ""
        /\ LET r == create_remote_backup_result(raised, status, stderr)
               h == TopLevelHandler(r.exc)
           IN  /\ archiveOutcome' = IF raised THEN "raised" ELSE "exited"
               /\ archiveExit' = status
               /\ archiveStderr' = stderr
               /\ ops' = Append(ops, "exec_command")
               /\ zip_command_path' = zip_command_target(ssh_path, backup_filename)
               /\ remote_backup_path' =
                     IF r.exc = "none"
                     THEN remote_backup_path_of(ssh_path, backup_filename)
                     ELSE remote_backup_path
               /\ log' = log
                     \o <<Info("Creating backup on remote server...")>>
                     \o r.logs \o h.logs
               /\ exc' = h.exc
               /\ pc' = after_step(h.exc, "download")
    /\ UNCHANGED <<backup_filename, get_remote_path, get_local_path,
                   removed_path,
                   environ, today, backup_date, ssh_client, sftp_client,
                   sessionOpen, sftpOpen, keyFile, exitStatus, setupOutcome,
                   downloadOutcome, removeOutcome>>

----------------------------------------------------------------------------
(* _download_backup *)

DownloadOutcomes == {"ok", "get_raises", "getsize_raises"}

download_continues_after_failure(o) == "none"

\* The exception _download_backup raises: sys.exit(1) in its handler.
download_backup_exc(o) == IF o = "ok" THEN "none" ELSE "SystemExit"

download_backup ==
    /\ pc = "download"
    /\ \E o \in DownloadOutcomes :
        LET k == download_backup_exc(o)
            h == TopLevelHandler(k)
        IN  /\ downloadOutcome' = o
            /\ get_remote_path' = remote_backup_path
            /\ get_local_path' = local_backup_path_of(backup_filename)
            /\ ops' = ops \o <<"get">>
                  \o (IF o = "get_raises" THEN <<>> ELSE <<"getsize">>)
            /\ log' = log
                  \o <<Info("Downloading backup")>>
                  \o (IF o = "ok"
                      THEN <<Info("Backup downloaded successfully. Size")>>
                      ELSE <<Error("Failed to download backup")>>)
                  \o h.logs
            /\ exc' = h.exc
            /\ pc' = after_step(h.exc, "cleanup")
    /\ UNCHANGED <<backup_filename, remote_backup_path, zip_command_path,
                   removed_path,
                   environ, today, backup_date, ssh_client, sftp_client,
                   sessionOpen, sftpOpen, keyFile, exitStatus, setupOutcome,
                   archiveOutcome, archiveExit, archiveStderr, removeOutcome>>

----------------------------------------------------------------------------
(* _cleanup_remote_backup and the end of create_backup's try body *)

RemoveOutcomes == {"ok", "remove_raises"}

cleanup_failure_is_fatal(o) == IF o = "ok" THEN "none" ELSE "SystemExit"

\* The exception _cleanup_remote_backup raises: its handler only warns.
cleanup_remote_backup_exc(o) == "none"

cleanup_logs_nothing_on_success(o) ==
    IF o = "ok" THEN <<>> ELSE <<Warning("Failed to clean up remote backup")>>

\* What _cleanup_remote_backup logs.
cleanup_remote_backup_logs(o) ==
    IF o = "ok"
    THEN <<Info("Remote backup file cleaned up")>>
    ELSE <<Warning("Failed to clean up remote backup")>>

cleanup_remote_backup ==
    /\ pc = "cleanup"
    /\ \E o \in RemoveOutcomes :
        LET k == cleanup_remote_backup_exc(o)
            h == TopLevelHandler(k)
        IN  /\ removeOutcome' = o
            /\ removed_path' = remote_backup_path
            /\ ops' = Append(ops, "remove")
            /\ log' = log
                  \o cleanup_remote_backup_logs(o)
                  \o (IF k = "none"
                      THEN <<Info("Backup process completed successfully!")>>
                      ELSE <<>>)
                  \o h.logs
            /\ exc' = h.exc
            /\ pc' = after_step(h.exc, "finally")
    /\ UNCHANGED <<backup_filename, remote_backup_path, zip_command_path,
                   get_remote_path, get_local_path,
                   environ, today, backup_date, ssh_client, sftp_client,
                   sessionOpen, sftpOpen, keyFile, exitStatus, setupOutcome,
                   archiveOutcome, archiveExit, archiveStderr, downloadOutcome>>

----------------------------------------------------------------------------
(* _close_connections, run by create_backup's finally, and process exit *)

CloseOps_session_first(sftp, ssh) ==
    (IF ssh # None THEN <<"ssh.close">> ELSE <<>>)
    \o (IF sftp # None THEN <<"sftp.close">> ELSE <<>>)

\* The close calls _close_connections makes, in order.
CloseOps(sftp, ssh) ==
    (IF sftp # None THEN <<"sftp.close">> ELSE <<>>)
    \o (IF ssh # None THEN <<"ssh.close">> ELSE <<>>)

\* The status the interpreter exits with: sys.exit(1) gives 1, a normal
\* return from main() gives 0.
ExitCode(k) == IF k = "none" THEN 0 ELSE 1

close_connections ==
    /\ pc = "finally"
    /\ LET called == CloseOps(sftp_client, ssh_client)
       IN  /\ ops' = ops \o called
           /\ sftpOpen' = (sftpOpen /\ ~Contains(called, "sftp.close"))
           /\ sessionOpen' = (sessionOpen /\ ~Contains(called, "ssh.close"))
    /\ log' = Append(log, Info("Connections closed"))
    /\ exitStatus' = <<ExitCode(exc)>>
    /\ pc' = "exited"
    /\ UNCHANGED <<backup_filename, remote_backup_path, zip_command_path,
                   get_remote_path, get_local_path, removed_path,
                   environ, today, backup_date, ssh_client, sftp_client,
                   keyFile, exc, setupOutcome, archiveOutcome, archiveExit,
                   archiveStderr, downloadOutcome, removeOutcome>>

----------------------------------------------------------------------------
(* The environment: the calendar date may change while the run is going on *)

Tick ==
    /\ pc # "exited"
    /\ today < MaxDay
    /\ today' = today + 1
    /\ UNCHANGED <<backup_filename, remote_backup_path, zip_command_path,
                   get_remote_path, get_local_path, removed_path,
                   environ, pc, backup_date, ssh_client, sftp_client,
                   sessionOpen, sftpOpen, keyFile, log, ops, exc, exitStatus,
                   setupOutcome, archiveOutcome, archiveExit, archiveStderr,
                   downloadOutcome, removeOutcome>>

----------------------------------------------------------------------------
(* Specification *)

Environments ==
    {e \in [EnvNames -> AllEnvValues] : \A n \in EnvNames : e[n] \in EnvValues(n)}

Init ==
    /\ environ \in Environments
    /\ today = 1
    /\ pc = "main"
    /\ backup_date = <<>>
    /\ backup_filename = <<>>
    /\ remote_backup_path = <<>>
    /\ zip_command_path = <<>>
    /\ get_remote_path = <<>>
    /\ get_local_path = <<>>
    /\ removed_path = <<>>
    /\ ssh_client = None
    /\ sftp_client = None
    /\ sessionOpen = FALSE
    /\ sftpOpen = FALSE
    /\ keyFile = "absent"
    /\ log = <<>>
    /\ ops = <<>>
    /\ exc = "none"
    /\ exitStatus = NotExited
    /\ setupOutcome = NotRun
    /\ archiveOutcome = NotRun
    /\ archiveExit = 0
    /\ archiveStderr = ""
    /\ downloadOutcome = NotRun
    /\ removeOutcome = NotRun

Next ==
    \/ Construct
    \/ setup_ssh_connection
    \/ create_remote_backup
    \/ download_backup
    \/ cleanup_remote_backup
    \/ close_connections
    \/ Tick

Spec == Init /\ [][Next]_vars

\* The run is one sequential thread: a step that is reached is executed, and
\* every blocking external call is assumed to return or raise.
LiveSpec ==
    /\ Spec
    /\ WF_vars(Construct)
    /\ WF_vars(setup_ssh_connection)
    /\ WF_vars(create_remote_backup)
    /\ WF_vars(download_backup)
    /\ WF_vars(cleanup_remote_backup)
    /\ WF_vars(close_connections)

----------------------------------------------------------------------------
(* Vocabulary of the properties *)

Mandatory == {"SSH_USER", "SSH_HOST", "SSH_PATH"}

IsMissing(n) == environ[n] = None \/ environ[n] = ""

AnyMissing == \E n \in Mandatory : IsMissing(n)

Exited == pc = "exited"

IndexOf(s, x) == CHOOSE i \in 1..Len(s) : s[i] = x /\ \A j \in 1..(i - 1) : s[j] # x

CountOf(s, x) == Cardinality({i \in 1..Len(s) : s[i] = x})

ErrorsOf(s) == SelectSeq(s, LAMBDA e : e[1] = "ERROR")

IsPrefix(s, t) == Len(s) <= Len(t) /\ \A i \in 1..Len(s) : s[i] = t[i]

----------------------------------------------------------------------------
(* C1 *)

\* C1: whenever at least one of SSH_USER, SSH_HOST, SSH_PATH is unset or
\* empty, the run goes from start straight to exit; at exit the log holds
\* exactly one record, an error naming every missing variable, the exit
\* status is non-zero, and nothing was created, connected or closed.
C1_MissingConfigFailsFast ==
    AnyMissing =>
        /\ pc \in {"main", "exited"}
        /\ Exited =>
            /\ Len(log) = 1
            /\ log[1][1] = "ERROR"
            /\ log[1][2] = "Missing required environment variables"
            /\ \A n \in Mandatory : IsMissing(n) => Contains(log[1][3], n)
            /\ Len(exitStatus) = 1 /\ exitStatus[1] # 0
            /\ ops = <<>>
            /\ ssh_client = None /\ sftp_client = None
            /\ ~sessionOpen /\ ~sftpOpen

C1_Witness ==
    /\ Exited
    /\ environ["SSH_USER"] = None
    /\ environ["SSH_HOST"] = "test.example.com"
    /\ environ["SSH_PATH"] = ""
    /\ Contains(log[1][3], "SSH_USER") /\ Contains(log[1][3], "SSH_PATH")
    /\ exitStatus = <<1>>

----------------------------------------------------------------------------
(* C2 *)

SessionWasOpened == setupOutcome \in {"ok", "open_sftp_raises"}

SftpWasOpened == setupOutcome = "ok"

\* C2: a run that passed validation never exits without the closer having
\* run: at exit the last log record is "Connections closed", the
\* file-transfer channel, if opened, was closed, the session, if opened, was
\* closed, the channel before the session, both after every other call, and
\* no handle is still open.
C2_CloserRunsOnEveryExit ==
    (~AnyMissing /\ Exited) =>
        /\ setupOutcome # NotRun
        /\ log[Len(log)] = Info("Connections closed")
        /\ CountOf(log, Info("Connections closed")) = 1
        /\ SftpWasOpened => CountOf(ops, "sftp.close") = 1
        /\ SessionWasOpened => CountOf(ops, "ssh.close") = 1
        /\ (Contains(ops, "sftp.close") /\ Contains(ops, "ssh.close")) =>
              IndexOf(ops, "sftp.close") < IndexOf(ops, "ssh.close")
        /\ \A i \in 1..Len(ops) :
              ops[i] \in {"sftp.close", "ssh.close"} =>
                  \A j \in (i + 1)..Len(ops) : ops[j] \in {"sftp.close", "ssh.close"}
        /\ ~sessionOpen /\ ~sftpOpen

C2_Witness ==
    /\ Exited
    /\ downloadOutcome = "get_raises"
    /\ exitStatus = <<1>>
    /\ Contains(ops, "sftp.close") /\ Contains(ops, "ssh.close")
    /\ log[Len(log)] = Info("Connections closed")

----------------------------------------------------------------------------
(* C3 *)

\* The fatal steps the claim lists, read off the collaborators' answers.
FatalStepFailed ==
    \/ AnyMissing
    \/ setupOutcome \notin {NotRun, "ok"}
    \/ archiveOutcome = "raised"
    \/ downloadOutcome \notin {NotRun, "ok"}

\* C3: at exit the status is 0 exactly when none of the fatal steps (missing
\* configuration, connection, transport failure of the remote command,
\* download) failed; in particular a non-zero exit status of the remote
\* command and a failed remote delete leave it 0.
C3_ExitStatusIffFatalStep ==
    Exited => ((exitStatus[1] = 0) <=> ~FatalStepFailed)

----------------------------------------------------------------------------
(* C4 *)

\* C4: with SSH_PUBLIC_KEY set, once the connection step has completed the
\* temporary key file is not on disk.
C4_KeyFileRemoved ==
    (Truthy(ssh_public_key) /\ setupOutcome # NotRun) => keyFile = "absent"

----------------------------------------------------------------------------
(* C5 *)

\* C5: when the remote command returned a non-zero exit status without the
\* command mechanism raising, a warning is logged, nothing is raised by the
\* step, and the download is the next step or has been attempted.
C5_NonZeroExitIsNotFatal ==
    (archiveOutcome = "exited" /\ archiveExit # 0) =>
        /\ Contains(log, Warning("Backup completed with warnings"))
        /\ ~Contains(log, Error("Failed to create remote backup"))
        /\ pc = "download" \/ Contains(ops, "get")

----------------------------------------------------------------------------
(* C6 *)

Milestones ==
    {"Environment variables validated successfully",
     "SSH connection established",
     "Backup created successfully on remote server",
     "Backup completed with warnings",
     "Backup downloaded successfully. Size",
     "Remote backup file cleaned up",
     "Failed to clean up remote backup",
     "Connections closed"}

\* The milestone records of the log, in order, by message.
MilestonesOf(s) ==
    LET kept == SelectSeq(s, LAMBDA e : e[2] \in Milestones)
    IN  [i \in 1..Len(kept) |-> kept[i][2]]

ArchiveMilestone ==
    IF archiveExit = 0
    THEN "Backup created successfully on remote server"
    ELSE "Backup completed with warnings"

\* C6 as stated: a run that exits with no step having failed fatally logged,
\* in order and once each, validated, connected, archive created or archive
\* warning, downloaded, remote cleaned up, connections closed, and exits 0.
C6_SuccessfulRunLogsOriginal ==
    (Exited /\ exc = "none") =>
        /\ MilestonesOf(log) =
              <<"Environment variables validated successfully",
                "SSH connection established",
                ArchiveMilestone,
                "Backup downloaded successfully. Size",
                "Remote backup file cleaned up",
                "Connections closed">>
        /\ exitStatus = <<0>>

CleanupMilestone ==
    IF removeOutcome = "ok"
    THEN "Remote backup file cleaned up"
    ELSE "Failed to clean up remote backup"

\* C6 (amended): as above, except that the fifth record is the
\* cleanup-of-remote log when the remote delete succeeded and the
\* cleanup-failure warning when it failed.
C6_SuccessfulRunLogs ==
    (Exited /\ exc = "none") =>
        /\ MilestonesOf(log) =
              <<"Environment variables validated successfully",
                "SSH connection established",
                ArchiveMilestone,
                "Backup downloaded successfully. Size",
                CleanupMilestone,
                "Connections closed">>
        /\ exitStatus = <<0>>

C6_Witness ==
    /\ Exited
    /\ exc = "none"
    /\ archiveExit = 0
    /\ removeOutcome = "ok"
    /\ exitStatus = <<0>>
    /\ Len(MilestonesOf(log)) = 6

----------------------------------------------------------------------------
(* C7 *)

\* C7: once the remote delete has failed, the run holds exactly one warning
\* for it and no error record, the success log follows the warning, nothing
\* propagates, and at exit the closer has logged and the status is 0.
C7_DeleteFailureIsWarningOnly ==
    removeOutcome = "remove_raises" =>
        /\ downloadOutcome = "ok"
        /\ CountOf(log, Warning("Failed to clean up remote backup")) = 1
        /\ ErrorsOf(log) = <<>>
        /\ Contains(log, Info("Backup process completed successfully!"))
        /\ IndexOf(log, Warning("Failed to clean up remote backup"))
              < IndexOf(log, Info("Backup process completed successfully!"))
        /\ exc = "none"
        /\ pc \in {"finally", "exited"}
        /\ Exited =>
              /\ log[Len(log)] = Info("Connections closed")
              /\ exitStatus = <<0>>

C7_Witness ==
    /\ Exited
    /\ removeOutcome = "remove_raises"
    /\ exitStatus = <<0>>
    /\ Contains(log, Warning("Failed to clean up remote backup"))

----------------------------------------------------------------------------
(* C8 *)

\* C8: when SSH_USER, SSH_HOST and SSH_PATH are all non-empty, whatever the
\* optional variables, construction logs "validated successfully" first and
\* leaves the run at the connection step; the run never exits without the
\* connection step having run (a session object created), also when that
\* step then fails.
C8_ValidationSucceedsAndConnects ==
    (~AnyMissing /\ pc # "main") =>
        /\ log[1] = Info("Environment variables validated successfully")
        /\ CountOf(log, Info("Environment variables validated successfully")) = 1
        /\ pc = "setup" \/ setupOutcome # NotRun
        /\ setupOutcome # NotRun =>
              (ops[1] = "SSHClient" /\ ssh_client # None)

C8_Witness ==
    /\ Exited
    /\ ~AnyMissing
    /\ ssh_mysql_path = None
    /\ setupOutcome = "connect_raises"
    /\ Contains(ops, "connect")
    /\ exitStatus = <<1>>

----------------------------------------------------------------------------
(* C9 *)

StepCalls == {"connect", "exec_command", "get", "remove"}

\* C9: the calls connect, exec_command, get, remove are made in that order
\* without gaps or repeats; the remote command is executed only with the
\* session and the file-transfer channel established, the download only
\* when the command mechanism did not raise, the remote delete only after a
\* successful download.
C9_StepsInOrder ==
    /\ IsPrefix(SelectSeq(ops, LAMBDA c : c \in StepCalls),
                <<"connect", "exec_command", "get", "remove">>)
    /\ pc = "archive" => (sessionOpen /\ sftpOpen)
    /\ Contains(ops, "exec_command") => setupOutcome = "ok"
    /\ Contains(ops, "get") => archiveOutcome = "exited"
    /\ pc = "download" => archiveOutcome = "exited"
    /\ Contains(ops, "remove") => downloadOutcome = "ok"
    /\ pc = "cleanup" => downloadOutcome = "ok"

C9_Witness ==
    /\ Exited
    /\ downloadOutcome = "getsize_raises"
    /\ Contains(ops, "get")
    /\ ~Contains(ops, "remove")

----------------------------------------------------------------------------
(* C10 *)

\* The error record the failing step itself writes.
StepErrorRecord ==
    IF setupOutcome \notin {NotRun, "ok"}
    THEN Error("Failed to establish SSH connection")
    ELSE IF archiveOutcome # NotRun /\ downloadOutcome = NotRun
    THEN Error("Failed to create remote backup")
    ELSE Error("Failed to download backup")

\* C10: in a run that passed validation and in which a step failed fatally,
\* the log holds exactly one error record, the one of the failing step, and
\* no "Backup process failed" record; a failed remote delete and a non-zero
\* archive status are logged as one warning each.
C10_FailureLoggedOnce ==
    /\ (~AnyMissing /\ exc # "none") =>
          /\ ErrorsOf(log) = <<StepErrorRecord>>
          /\ ~Contains(log, Error("Backup process failed"))
    /\ CountOf(log, Warning("Failed to clean up remote backup")) <= 1
    /\ CountOf(log, Warning("Backup completed with warnings")) <= 1
    /\ exc = "none" => ErrorsOf(log) = <<>>

C10_Witness ==
    /\ Exited
    /\ downloadOutcome = "get_raises"
    /\ ErrorsOf(log) = <<Error("Failed to download backup")>>
    /\ exitStatus = <<1>>

----------------------------------------------------------------------------
(* C11 *)

\* C11: when the session connected and opening the file-transfer channel
\* failed, the run logs the connection error as its only error, never
\* executes the remote command, the download or the delete, heads for the
\* closer, and at exit the status is non-zero, the session was closed once,
\* no file-transfer channel was closed, and no handle is open.
C11_SftpOpenFailureIsConnectionFailure ==
    setupOutcome = "open_sftp_raises" =>
        /\ Contains(ops, "connect") /\ Contains(ops, "open_sftp")
        /\ ErrorsOf(log) = <<Error("Failed to establish SSH connection")>>
        /\ ~Contains(log, Info("SSH connection established"))
        /\ ~Contains(ops, "exec_command")
        /\ ~Contains(ops, "get")
        /\ ~Contains(ops, "remove")
        /\ pc \in {"finally", "exited"}
        /\ sftp_client = None
        /\ Exited =>
              /\ Len(exitStatus) = 1 /\ exitStatus[1] # 0
              /\ CountOf(ops, "ssh.close") = 1
              /\ ~Contains(ops, "sftp.close")
              /\ ~sessionOpen /\ ~sftpOpen
              /\ log[Len(log)] = Info("Connections closed")

C11_Witness ==
    /\ Exited
    /\ setupOutcome = "open_sftp_raises"
    /\ Contains(ops, "ssh.close")
    /\ exitStatus = <<1>>

----------------------------------------------------------------------------
(* C12 *)

ExternalOperations == {"connect", "open_sftp", "exec_command", "get", "remove"}

\* C12: in any run, whatever the collaborators answer, each of connect,
\* open_sftp, exec_command, get and remove has been called at most once.
C12_NothingIsRetried ==
    \A c \in ExternalOperations : CountOf(ops, c) <= 1

C12_Witness ==
    /\ Exited
    /\ setupOutcome = "connect_raises"
    /\ CountOf(ops, "connect") = 1
    /\ ~Contains(ops, "open_sftp")
    /\ ~Contains(ops, "exec_command")
    /\ exitStatus = <<1>>

----------------------------------------------------------------------------
(* C13 *)

\* The archive filename for the date stamp the job holds.
StampedFilename == backup_date \o <<".wp-content.zip">>

\* {SSH_PATH}/{backupDate}.wp-content.zip
StampedRemotePath == <<environ["SSH_PATH"], "/">> \o StampedFilename

\* ~/{backupDate}.wp-content.zip
StampedLocalPath == <<"~", "/">> \o StampedFilename

C13_PathsAgree ==
    /\ backup_date # <<>> => backup_filename = StampedFilename
    /\ zip_command_path # <<>> => zip_command_path = StampedRemotePath
    /\ remote_backup_path # <<>> => remote_backup_path = StampedRemotePath
    /\ Contains(ops, "exec_command") => zip_command_path # <<>>
    /\ Contains(ops, "get") =>
          (get_remote_path = StampedRemotePath /\ get_local_path = StampedLocalPath)
    /\ Contains(ops, "remove") => removed_path = StampedRemotePath

\* C13: once captured at construction, the date stamp and the filename never
\* change, whatever the calendar does; the filename is always
\* {backupDate}.wp-content.zip, and the path the archive command writes, the
\* path downloaded and the path deleted are all
\* {SSH_PATH}/{backupDate}.wp-content.zip, the local destination
\* ~/{backupDate}.wp-content.zip.
C13_DateStampFixed ==
    /\ []C13_PathsAgree
    /\ [][backup_date # <<>> =>
             (backup_date' = backup_date /\ backup_filename' = backup_filename)]_vars
    /\ [][(backup_date = <<>> /\ backup_date' # <<>>) =>
             backup_date' = strftime(today)]_vars

C13_Witness ==
    /\ Exited
    /\ removeOutcome = "ok"
    /\ backup_date = <<"2024", "-", "01", "-", "0", "1">>
    /\ strftime(today) # backup_date
    /\ zip_command_path = <<"/var/www/html", "/", "2024", "-", "01", "-", "0", "1", ".wp-content.zip">>
    /\ get_remote_path = zip_command_path
    /\ removed_path = zip_command_path
    /\ get_local_path = <<"~", "/", "2024", "-", "01", "-", "0", "1", ".wp-content.zip">>

----------------------------------------------------------------------------
(* C14 *)

\* The Closed state: the closer has run and no handle is open.
Closed ==
    /\ Contains(log, Info("Connections closed"))
    /\ ~sessionOpen /\ ~sftpOpen

\* C14: with every external call returning or raising, every run eventually
\* exits; a run whose mandatory variables are set, and any run that
\* attempted a connection, eventually exits in the Closed state; a run that
\* fails validation never enters the closer.
C14_RunTerminates ==
    /\ <>Exited
    /\ (~AnyMissing) ~> (Exited /\ Closed)
    /\ (setupOutcome # NotRun) ~> (Exited /\ Closed)
    /\ [](AnyMissing => (pc # "finally" /\ ~Contains(log, Info("Connections closed"))
                          /\ ~Contains(ops, "ssh.close")))

C14_Witness ==
    /\ Exited
    /\ setupOutcome = "parse_raises"
    /\ Closed
    /\ exitStatus = <<1>>

====
